---------------------------- MODULE Spec2Model ----------------------------
(***************************************************************************)
(* fetch_arxiv.py: one invocation fetches the recent papers of every       *)
(* category (fetch_recent_papers) and writes them to a dated file and to   *)
(* data/latest.json (save_to_json).  The model follows the script through  *)
(* repeated invocations: the clock, the local UTC offset, the upstream     *)
(* service's answers and the file system are the environment.              *)
(*                                                                         *)
(* Time is counted in hours.  A naive datetime is [wall |-> w]; an aware   *)
(* one is [wall |-> w, utcoffset |-> o] and denotes the instant w - o.     *)
(* An upstream result carries entry_id and published only: the other       *)
(* fields of a record (title, authors, abstract, categories,               *)
(* primary_category) are copied from the result and never read again.      *)
(***************************************************************************)
EXTENDS Integers, Sequences, FiniteSets, TLC

VARIABLES
    clock,       \* the instant now, in hours (UTC)
    tz,          \* the UTC offset of the local time zone, in hours
    run,         \* invocations of the script started so far
    pc,          \* where the current invocation is
    exc,         \* the exception that ended the invocation, or "none"
    end_date,    \* fetch_recent_papers: end_date (naive, local)
    start_date,  \* fetch_recent_papers: start_date (naive, local)
    cat,         \* categories whose search has been issued in this invocation
    results,     \* what upstream answered to each category's search
    served,      \* results upstream has returned so far, over all invocations
    papers,      \* the accumulated list of paper records
    data_dir,    \* whether the directory data/ exists
    filename,    \* save_to_json: the dated file's name
    output,      \* save_to_json: the object to write
    fs,          \* the files under data/: name -> content
    history      \* the invocations that ran to "Done!": dated name, day of completion

vars == << clock, tz, run, pc, exc, end_date, start_date, cat, results, served,
           papers, data_dir, filename, output, fs, history >>

----------------------------------------------------------------------------
\* Bounds of the model.
MaxLen == 2      \* results in one search's answer
MaxTotal == 2    \* results upstream returns over a whole behaviour
MaxRuns == 2     \* invocations of the script
MaxTicks == 2    \* hours the clock advances over a whole behaviour

\* Program constants.
CATEGORIES == << "cs.AI", "cs.LG", "cs.CL", "cs.CY" >>
max_results == 200
DAYS == 7
HoursPerDay == 24

TZOffsets == { -1, 0, 1 }
FirstClock == HoursPerDay - 2
MaxClock == FirstClock + MaxTicks

Min(a, b) == IF a <= b THEN a ELSE b

----------------------------------------------------------------------------
\* datetime

\* datetime.now(): the local wall clock, naive.
Now(t) == [wall |-> t + tz]

\* dt - timedelta(days = d)
MinusDays(dt, d) == [dt EXCEPT !.wall = dt.wall - d * HoursPerDay]

\* dt.replace(tzinfo = None): the wall clock reading is kept, the offset dropped.
ReplaceTzinfoNone(dt) == [wall |-> dt.wall]

\* dt.isoformat(): an aware datetime prints its offset, a naive one does not.
IsoFormat(dt) ==
    IF "utcoffset" \in DOMAIN dt THEN << dt.wall, dt.utcoffset >> ELSE << dt.wall >>

\* dt.strftime('%Y-%m-%d')
StrfDate(dt) == dt.wall \div HoursPerDay

----------------------------------------------------------------------------
\* Upstream

\* A result of the search: arxiv reports published in UTC.
Result(l, t) == [entry_id |-> l, published |-> [wall |-> t, utcoffset |-> 0]]

\* The papers upstream holds around the comparison boundary s: one an hour
\* newer, one exactly at it, one an hour older.  A paper may be listed in any
\* number of categories.
Entries(s) == { Result("a", s + 1), Result("b", s), Result("c", s - 1) }

SeqsUpTo(S, n) == UNION { [1..k -> S] : k \in 0..n }

\* The answers a search can get: at most max_results results, in any order.
Answers(s) == SeqsUpTo(Entries(s), Min(Min(max_results, MaxLen), MaxTotal - served))

NotAsked == [status |-> "none", entries |-> << >>]

----------------------------------------------------------------------------
\* fetch_recent_papers

\* The date test of the result walk: published, its offset dropped, against
\* the naive local start_date.
InRange(result, sd) == ReplaceTzinfoNone(result.published).wall >= sd.wall

\* The record built from a result.
Paper(result) ==
    [link |-> result.entry_id, published |-> IsoFormat(result.published)]

\* Walk with the date test made strict: a result published exactly at
\* start_date is taken for an older one.
RECURSIVE WalkStrictlyAfter(_, _)
WalkStrictlyAfter(rs, sd) ==
    IF rs = << >> THEN << >>
    ELSE IF ReplaceTzinfoNone(Head(rs).published).wall > sd.wall
         THEN << Paper(Head(rs)) >> \o WalkStrictlyAfter(Tail(rs), sd)
    ELSE << >>

\* The walk over one search's results: keep while in range, break at the
\* first result that is not.
RECURSIVE Walk(_, _)
Walk(rs, sd) ==
    IF rs = << >> THEN << >>
    ELSE IF InRange(Head(rs), sd) THEN << Paper(Head(rs)) >> \o Walk(Tail(rs), sd)
    ELSE << >>

\* Extend with records whose link is already in the list left out.
RECURSIVE ExtendUnique(_, _)
ExtendUnique(ps, kept) ==
    IF kept = << >> THEN ps
    ELSE IF \E i \in 1..Len(ps) : ps[i].link = Head(kept).link
         THEN ExtendUnique(ps, Tail(kept))
    ELSE ExtendUnique(Append(ps, Head(kept)), Tail(kept))

\* papers.append, once per kept record.
Extend(ps, kept) == ps \o kept

----------------------------------------------------------------------------
\* save_to_json

NoName == << "data" >>
NoDate == [wall |-> 0]
NoOutput ==
    [fetched_at |-> << 0 >>, date_range |-> [start |-> << 0 >>, end |-> << 0 >>],
     count |-> 0, papers |-> << >>]

DatedName(date) == << "data", "arxiv", date >>
latest_file == << "data", "latest" >>

\* BuildOutput with count taken over the distinct links.
BuildOutputDistinct(ps, days, t1, t2, t3) ==
    [fetched_at |-> IsoFormat(Now(t1)),
     date_range |-> [start |-> IsoFormat(MinusDays(Now(t2), days)),
                     end |-> IsoFormat(Now(t3))],
     count |-> Cardinality({ ps[i].link : i \in 1..Len(ps) }),
     papers |-> ps]

\* The output object; t1, t2, t3 are the clock at its three datetime.now() calls.
BuildOutput(ps, days, t1, t2, t3) ==
    [fetched_at |-> IsoFormat(Now(t1)),
     date_range |-> [start |-> IsoFormat(MinusDays(Now(t2), days)),
                     end |-> IsoFormat(Now(t3))],
     count |-> Len(ps),
     papers |-> ps]

\* json.dump: the object's members in insertion order.
JsonDump(out) == << out.fetched_at, out.date_range, out.count, out.papers >>

\* WriteFile with the file opened in mode "a": the text is added to what the
\* file held.
WriteFileAppend(files, name, data) ==
    (name :> (IF name \in DOMAIN files THEN files[name] \o data ELSE data)) @@ files

\* open(name, "w") and a write of data: the file is created or replaced.
WriteFile(files, name, data) == (name :> data) @@ files

\* What a write that fails part-way leaves: open(name, "w") has emptied the
\* file and the text did not reach it.
Truncated == << >>

----------------------------------------------------------------------------
Init ==
    /\ clock = FirstClock
    /\ tz \in TZOffsets
    /\ run = 0
    /\ pc = "idle"
    /\ exc = "none"
    /\ end_date = NoDate
    /\ start_date = NoDate
    /\ cat = 0
    /\ results = [c \in 1..Len(CATEGORIES) |-> NotAsked]
    /\ served = 0
    /\ papers = << >>
    /\ data_dir = FALSE
    /\ filename = NoName
    /\ output = NoOutput
    /\ fs = << >>
    /\ history = << >>

\* The process is gone: its locals with it.
Raise(e) ==
    /\ pc' = "crashed"
    /\ exc' = e
    /\ papers' = << >>
    /\ end_date' = NoDate
    /\ start_date' = NoDate
    /\ filename' = NoName
    /\ output' = NoOutput

\* __main__ up to the first search: a new invocation, which reads the clock
\* for end_date.  An invocation after the first starts later than every clock
\* reading of the one before it.
StartRun ==
    /\ pc \in { "idle", "done", "crashed" }
    /\ run < MaxRuns
    /\ \E t \in (IF run = 0 THEN clock ELSE clock + 1)..MaxClock :
         /\ clock' = t
         /\ end_date' = Now(t)
         /\ start_date' = MinusDays(Now(t), DAYS)
    /\ run' = run + 1
    /\ pc' = "fetch"
    /\ exc' = "none"
    /\ cat' = 0
    /\ results' = [c \in 1..Len(CATEGORIES) |-> NotAsked]
    /\ papers' = << >>
    /\ filename' = NoName
    /\ output' = NoOutput
    /\ UNCHANGED << tz, served, data_dir, fs, history >>

\* One category: the search is answered and its results are walked.
SearchCategory ==
    /\ pc = "fetch"
    /\ cat < Len(CATEGORIES)
    /\ \E ans \in Answers(start_date.wall) :
         /\ results' = [results EXCEPT ![cat + 1] = [status |-> "ok", entries |-> ans]]
         /\ served' = served + Len(ans)
         /\ papers' = Extend(papers, Walk(ans, start_date))
    /\ cat' = cat + 1
    /\ UNCHANGED << clock, tz, run, pc, exc, end_date, start_date, data_dir,
                    filename, output, fs, history >>

\* SearchFails with the exception caught in the loop: the category is skipped.
SearchFailsIgnored ==
    /\ pc = "fetch"
    /\ cat < Len(CATEGORIES)
    /\ results' = [results EXCEPT ![cat + 1] = [status |-> "error", entries |-> << >>]]
    /\ cat' = cat + 1
    /\ UNCHANGED << clock, tz, run, pc, exc, end_date, start_date, served, papers,
                    data_dir, filename, output, fs, history >>

\* One category: the search fails and the exception leaves the script.  (A
\* failure after part of the answer was walked ends the same way: the list
\* is a local of the process.)
SearchFails ==
    /\ pc = "fetch"
    /\ cat < Len(CATEGORIES)
    /\ results' = [results EXCEPT ![cat + 1] = [status |-> "error", entries |-> << >>]]
    /\ cat' = cat + 1
    /\ Raise("upstream")
    /\ UNCHANGED << clock, tz, run, served, data_dir, fs, history >>

\* fetch_recent_papers returns (its locals and the answers it walked are gone)
\* and save_to_json runs up to the output object: data/ is made, and the
\* clock is read at t0 for the dated name and at t1, t2, t3 for fetched_at,
\* date_range.start and date_range.end; it may move on between the reads.
PrepareOutput ==
    /\ pc = "fetch"
    /\ cat = Len(CATEGORIES)
    /\ \E t0 \in clock..MaxClock : \E t1 \in t0..MaxClock :
       \E t2 \in t1..MaxClock : \E t3 \in t2..MaxClock :
         /\ filename' = DatedName(StrfDate(Now(t0)))
         /\ output' = BuildOutput(papers, DAYS, t1, t2, t3)
         /\ clock' = t3
    /\ data_dir' = TRUE
    /\ pc' = "write_dated"
    /\ end_date' = NoDate
    /\ start_date' = NoDate
    /\ cat' = 0
    /\ results' = [c \in 1..Len(CATEGORIES) |-> NotAsked]
    /\ UNCHANGED << tz, run, exc, served, papers, fs, history >>

\* data/ is missing and cannot be created.
MkdirFails ==
    /\ pc = "fetch"
    /\ cat = Len(CATEGORIES)
    /\ ~data_dir
    /\ Raise("mkdir")
    /\ cat' = 0
    /\ results' = [c \in 1..Len(CATEGORIES) |-> NotAsked]
    /\ UNCHANGED << clock, tz, run, served, data_dir, fs, history >>

\* SaveDated with nothing written for an empty list.
SaveDatedUnlessEmpty ==
    /\ pc = "write_dated"
    /\ fs' = IF papers = << >> THEN fs ELSE WriteFile(fs, filename, JsonDump(output))
    /\ pc' = "write_latest"
    /\ UNCHANGED << clock, tz, run, exc, end_date, start_date, cat, results,
                    served, papers, data_dir, filename, output, history >>

\* SaveDated with the two writes in the other order: this one goes to the
\* latest file.
SaveDatedLatestFirst ==
    /\ pc = "write_dated"
    /\ fs' = WriteFile(fs, latest_file, JsonDump(output))
    /\ pc' = "write_latest"
    /\ UNCHANGED << clock, tz, run, exc, end_date, start_date, cat, results,
                    served, papers, data_dir, filename, output, history >>

\* The dated file is written.
SaveDated ==
    /\ pc = "write_dated"
    /\ fs' = WriteFile(fs, filename, JsonDump(output))
    /\ pc' = "write_latest"
    /\ UNCHANGED << clock, tz, run, exc, end_date, start_date, cat, results,
                    served, papers, data_dir, filename, output, history >>

\* The dated file cannot be opened.
SaveDatedOpenFails ==
    /\ pc = "write_dated"
    /\ Raise("open")
    /\ cat' = 0
    /\ results' = [c \in 1..Len(CATEGORIES) |-> NotAsked]
    /\ UNCHANGED << clock, tz, run, served, data_dir, fs, history >>

\* The dated file is opened and the write fails part-way.
SaveDatedWriteFails ==
    /\ pc = "write_dated"
    /\ fs' = WriteFile(fs, filename, Truncated)
    /\ Raise("write")
    /\ cat' = 0
    /\ results' = [c \in 1..Len(CATEGORIES) |-> NotAsked]
    /\ UNCHANGED << clock, tz, run, served, data_dir, history >>

\* SaveLatest with the output object built again at the second write.
SaveLatestRebuilt ==
    /\ pc = "write_latest"
    /\ fs' = WriteFile(fs, latest_file,
                       JsonDump(BuildOutput(papers, DAYS, clock, clock, clock)))
    /\ pc' = "done"
    /\ history' = Append(history, [file |-> filename, day |-> StrfDate(Now(clock))])
    /\ UNCHANGED << clock, tz, run, exc, end_date, start_date, cat, results,
                    served, papers, data_dir, filename, output >>

\* The latest file is written, and the script ends with "Done!".
SaveLatest ==
    /\ pc = "write_latest"
    /\ fs' = WriteFile(fs, latest_file, JsonDump(output))
    /\ pc' = "done"
    /\ history' = Append(history, [file |-> filename, day |-> StrfDate(Now(clock))])
    /\ UNCHANGED << clock, tz, run, exc, end_date, start_date, cat, results,
                    served, papers, data_dir, filename, output >>

\* The script stops between the two writes: the latest file cannot be opened.
SaveLatestOpenFails ==
    /\ pc = "write_latest"
    /\ Raise("open")
    /\ cat' = 0
    /\ results' = [c \in 1..Len(CATEGORIES) |-> NotAsked]
    /\ UNCHANGED << clock, tz, run, served, data_dir, fs, history >>

\* The latest file is opened and the write fails part-way.
SaveLatestWriteFails ==
    /\ pc = "write_latest"
    /\ fs' = WriteFile(fs, latest_file, Truncated)
    /\ Raise("write")
    /\ cat' = 0
    /\ results' = [c \in 1..Len(CATEGORIES) |-> NotAsked]
    /\ UNCHANGED << clock, tz, run, served, data_dir, history >>

Next ==
    \/ StartRun
    \/ SearchCategory
    \/ SearchFails
    \/ PrepareOutput
    \/ MkdirFails
    \/ SaveDated
    \/ SaveDatedOpenFails
    \/ SaveDatedWriteFails
    \/ SaveLatest
    \/ SaveLatestOpenFails
    \/ SaveLatestWriteFails

Spec == Init /\ [][Next]_vars

----------------------------------------------------------------------------
\* What the properties below read.

\* The loop over the categories has finished and fetch_recent_papers is
\* about to return.
FetchReturned == pc = "fetch" /\ cat = Len(CATEGORIES)

\* save_to_json has built its output object.
InWriter == pc \in { "write_dated", "write_latest", "done" }

\* A file holds a whole object, and the object it holds.
Whole(name) == name \in DOMAIN fs /\ Len(fs[name]) = 4
Loaded(name) ==
    [fetched_at |-> fs[name][1], date_range |-> fs[name][2],
     count |-> fs[name][3], papers |-> fs[name][4]]

\* The instant an aware datetime denotes, and the instant a naive local
\* wall clock reading denotes.
InstantOfAware(dt) == dt.wall - dt.utcoffset
InstantOfLocal(w) == w - tz

\* The instant an ISO timestamp denotes: one without offset is local time.
IsoInstant(iso) == IF Len(iso) = 2 THEN iso[1] - iso[2] ELSE InstantOfLocal(iso[1])

Window == DAYS * HoursPerDay

\* How often link l occurs in a list of records.
Occurrences(ps, l) == Cardinality({ i \in 1..Len(ps) : ps[i].link = l })

\* Result i of category c's answer is in the window and before the early
\* exit: it and every result before it are at or after start_date.
Reached(c, i) ==
    \A j \in 1..i : results[c].entries[j].published.wall >= start_date.wall

\* The places (category, position) at which link l was returned and reached.
ReachedPlaces(l) ==
    UNION { { << c, i >> : i \in { k \in 1..Len(results[c].entries) :
                                    /\ results[c].entries[k].entry_id = l
                                    /\ Reached(c, k) } } : c \in 1..cat }

\* An answer is strictly sorted descending by publication time.
StrictlyDescending(rs) ==
    \A i \in 1..(Len(rs) - 1) :
        InstantOfAware(rs[i].published) > InstantOfAware(rs[i + 1].published)

\* Scan all results and keep each one published at or after start_date.
RECURSIVE KeepAll(_, _)
KeepAll(rs, sd) ==
    IF rs = << >> THEN << >>
    ELSE (IF Head(rs).published.wall >= sd.wall THEN << Paper(Head(rs)) >> ELSE << >>)
         \o KeepAll(Tail(rs), sd)

\* The records expected of the categories 1..c: the full scan's for a sorted
\* answer, the walk's for any other.
RECURSIVE ExpectedUpTo(_)
ExpectedUpTo(c) ==
    IF c = 0 THEN << >>
    ELSE ExpectedUpTo(c - 1) \o
         (IF StrictlyDescending(results[c].entries)
          THEN KeepAll(results[c].entries, start_date)
          ELSE Walk(results[c].entries, start_date))

----------------------------------------------------------------------------
\* C1: when save_to_json has completed, the count member of the object in the
\* dated file and in the latest file equals the length of its papers array,
\* whatever the list was (empty, with duplicates).
C1_CountIsLength ==
    pc = "done" =>
        \A name \in { filename, latest_file } :
            /\ Whole(name)
            /\ Loaded(name).count = Len(Loaded(name).papers)
            /\ Loaded(name).papers = papers

\* A completed run whose list holds the same paper twice.
C1_Witness ==
    /\ pc = "done"
    /\ Len(papers) = 2
    /\ papers[1].link = papers[2].link
    /\ Whole(latest_file)
    /\ Loaded(latest_file).count = 2

\* C3: for every category whose answer is strictly sorted descending by
\* publication time, the walk with its early exit keeps exactly the records,
\* in the same order, that a scan of the whole answer keeps.
C3_WalkIsFullScan ==
    pc = "fetch" => papers = ExpectedUpTo(cat)

\* A sorted answer whose walk kept a record and then left at an older one.
C3_Witness ==
    /\ pc = "fetch"
    /\ \E c \in 1..cat :
         /\ Len(results[c].entries) = 2
         /\ StrictlyDescending(results[c].entries)
         /\ Reached(c, 1)
         /\ ~Reached(c, 2)
    /\ Len(papers) >= 1

\* C5: when every category's search returns no results and nothing fails, the
\* list is empty when the fetch returns, and a run that completes with an
\* empty list has written both files with count 0 and papers [].
C5_EmptyRunWritten ==
    /\ (FetchReturned /\ \A c \in 1..Len(CATEGORIES) :
                            results[c] = [status |-> "ok", entries |-> << >>])
           => papers = << >>
    /\ (pc = "done" /\ papers = << >>) =>
           \A name \in { filename, latest_file } :
               /\ Whole(name)
               /\ Loaded(name).count = 0
               /\ Loaded(name).papers = << >>

\* A completed run, upstream having returned no result at all.
C5_Witness ==
    /\ pc = "done"
    /\ served = 0
    /\ Whole(filename) /\ Loaded(filename).count = 0
    /\ Whole(latest_file) /\ Loaded(latest_file).papers = << >>

\* C6: no de-duplication across categories: a paper occurs in the list once
\* for every place at which a category's answer returned it in the window
\* and before that category's early exit, and count counts every occurrence.
C6_NoDeduplication ==
    /\ pc = "fetch" =>
           \A l \in { "a", "b", "c" } :
               Occurrences(papers, l) = Cardinality(ReachedPlaces(l))
    /\ InWriter => (output.papers = papers /\ output.count = Len(papers))

\* Two different categories returned the same paper, and it is listed twice.
C6_Witness ==
    /\ FetchReturned
    /\ \E c1, c2 \in 1..Len(CATEGORIES) :
         /\ c1 # c2
         /\ Len(results[c1].entries) = 1 /\ Reached(c1, 1)
         /\ Len(results[c2].entries) = 1 /\ Reached(c2, 1)
         /\ results[c1].entries[1].entry_id = results[c2].entries[1].entry_id
    /\ Len(papers) = 2
    /\ papers[1].link = papers[2].link

\* C8: when save_to_json has completed, the dated file and the latest file
\* hold the same text.
C8_SameText ==
    pc = "done" =>
        /\ filename \in DOMAIN fs
        /\ latest_file \in DOMAIN fs
        /\ fs[filename] = fs[latest_file]

\* A completed run with a paper, the clock having moved on while it saved.
C8_Witness ==
    /\ pc = "done"
    /\ Len(papers) >= 1
    /\ Whole(filename)
    /\ Whole(latest_file)
    /\ Loaded(latest_file).date_range.end # Loaded(latest_file).fetched_at

\* C2: every record in the written papers array has a published timestamp at
\* or after fetched_at minus DAYS days, fetched_at being the value written to
\* the file and the two timestamps taken on the same time zone basis.
C2_PublishedWithinFetchedWindow ==
    pc = "done" =>
        \A name \in { filename, latest_file } :
            Whole(name) =>
                \A i \in 1..Len(Loaded(name).papers) :
                    IsoInstant(Loaded(name).papers[i].published)
                        >= IsoInstant(Loaded(name).fetched_at) - Window

\* C4: every record fetch_recent_papers returns was published at or after
\* now minus the window and at or before now, now being the time read at the
\* start of the fetch.
C4_PublishedWithinWindow ==
    pc = "fetch" =>
        \A i \in 1..Len(papers) :
            /\ IsoInstant(papers[i].published) >= InstantOfLocal(end_date.wall) - Window
            /\ IsoInstant(papers[i].published) <= InstantOfLocal(end_date.wall)

\* The run that just completed and the completed run before it.
LastDone == history[Len(history)]
DoneBefore == history[Len(history) - 1]

\* C7 as stated: after two runs that both complete on the same calendar day,
\* that day's dated file and the latest file hold the second run's output,
\* and the second run wrote no other dated file than the first.
C7_SameCompletionDay ==
    (pc = "done" /\ Len(history) >= 2 /\ LastDone.day = DoneBefore.day) =>
        /\ LastDone.file = DoneBefore.file
        /\ Whole(DatedName(LastDone.day))
        /\ fs[DatedName(LastDone.day)] = JsonDump(output)
        /\ Whole(latest_file)
        /\ fs[latest_file] = JsonDump(output)

\* C7, amended: after two runs that both complete and whose dated file names
\* were taken on the same calendar day, the dated file and the latest file
\* hold exactly the second run's output, with this run's list and nothing of
\* the first run's; and writing a dated file that exists creates no file.
C7_SameDayRerunOverwrites ==
    /\ []((pc = "done" /\ Len(history) >= 2 /\ LastDone.file = DoneBefore.file) =>
            /\ Whole(filename)
            /\ fs[filename] = JsonDump(output)
            /\ Whole(latest_file)
            /\ fs[latest_file] = JsonDump(output)
            /\ output.papers = papers)
    /\ [][(pc = "write_dated" /\ filename \in DOMAIN fs) => DOMAIN fs' = DOMAIN fs]_vars

\* Two completed runs with the same dated file, the first with a paper and
\* the second with none.
C7_Witness ==
    /\ pc = "done"
    /\ Len(history) = 2
    /\ LastDone.file = DoneBefore.file
    /\ served >= 1
    /\ papers = << >>
    /\ fs[filename] = JsonDump(output)

\* C9: when a category's search fails, the failure leaves the script at once
\* (no further search, no retry), before the writer starts: no file is
\* created or changed during the fetch or by the failure, the records of the
\* earlier categories are dropped, and nothing happens until the script is
\* invoked again.
C9_SearchFailureAborts ==
    /\ [][(\E c \in 1..Len(CATEGORIES) : results'[c].status = "error") =>
             (pc' = "crashed" /\ exc' = "upstream" /\ papers' = << >> /\ fs' = fs)]_vars
    /\ [][pc = "fetch" => fs' = fs]_vars
    /\ [][pc = "crashed" => (pc' = "fetch" /\ run' = run + 1 /\ papers' = << >> /\ fs' = fs)]_vars

\* A later category's search failed after an earlier one had contributed a
\* record, with files of an earlier run on disk.
C9_Witness ==
    /\ pc = "crashed"
    /\ exc = "upstream"
    /\ \E c1, c2 \in 1..Len(CATEGORIES) :
         /\ c1 < c2
         /\ results[c1].status = "ok"
         /\ Len(results[c1].entries) >= 1
         /\ results[c1].entries[1].entry_id \in { "a", "b" }
         /\ results[c2].status = "error"
    /\ Whole(latest_file)

\* The latest file is as it was.
LatestUntouched ==
    /\ (latest_file \in DOMAIN fs') = (latest_file \in DOMAIN fs)
    /\ latest_file \in DOMAIN fs => fs'[latest_file] = fs[latest_file]

\* C10: the dated file is written before the latest file and the two writes
\* are not atomic: the latest file holds the current run's content only if
\* the dated file does, the latest file is untouched until the dated file is
\* written, and a stop between the two writes leaves the dated file with the
\* current run's content and the latest file as it was.
C10_DatedBeforeLatest ==
    /\ [](InWriter =>
            ((latest_file \in DOMAIN fs /\ fs[latest_file] = JsonDump(output))
                => (filename \in DOMAIN fs /\ fs[filename] = JsonDump(output))))
    /\ [][(pc \in { "fetch", "write_dated" }) => (LatestUntouched)]_vars
    /\ [][(pc = "write_latest" /\ exc' = "open") =>
             (fs[filename] = JsonDump(output) /\ fs' = fs /\ LatestUntouched)]_vars

\* The script stopped between the two writes: a dated file holds a later
\* object than the latest file does.
C10_Witness ==
    /\ pc = "crashed"
    /\ exc = "open"
    /\ Whole(latest_file)
    /\ \E d \in { 0, 1 } :
         /\ Whole(DatedName(d))
         /\ Loaded(DatedName(d)).fetched_at[1] > Loaded(latest_file).fetched_at[1]
====
